---- MODULE Spec2Model ----
(***************************************************************************)
(* Model of samples/python/agents/any_agent/__main__.py: the adversarial   *)
(* simulation driver (main), the served-agent context manager              *)
(* (A2AServedAgent, create_defender_agent_server) and the transcript       *)
(* check (was_attack_successful).                                          *)
(*                                                                         *)
(* Text is a sequence of one-character strings.  The calls into the        *)
(* any_agent library (create_async, serve_async, a2a_tool_async,           *)
(* run_async, shutdown) are awaits whose outcome is chosen                 *)
(* nondeterministically: they return, raise, or are cancelled.             *)
(***************************************************************************)
EXTENDS Integers, Sequences, FiniteSets

VARIABLES
    pc,               \* position of the driver / of the caller of the context manager
    serving_config,   \* A2AServedAgent.serving_config
    handle,           \* A2AServedAgent.handle
    server_url,       \* A2AServedAgent.server_url
    server,           \* the library's server: "none", "running", "stopping", "stopped"
    defender_agent_url, \* main: the value bound by "async with ... as defender_agent_url"
    attacker_tools,   \* main: the tools given to the attacker, in order
    final_output,     \* main: agent_trace.final_output
    stdout,           \* what main has printed, in order
    exc,              \* the exception now propagating, "none" if none
    origin,           \* the await at which the first exception was raised, "none" if none
    exitCode,         \* process exit status, -1 while the process runs
    serveRequests,    \* number of serve_async calls
    runRequests,      \* number of run_async calls
    shutdownRequests, \* number of handle.shutdown() calls
    enterDone,        \* number of __aenter__ calls that returned
    exitCalls,        \* number of __aexit__ calls
    phases,           \* the driver states passed through, in order
    agent_response,   \* argument of a was_attack_successful call
    tool_result       \* its result: "unset", "true", "false"

vars == <<pc, serving_config, handle, server_url, server, defender_agent_url,
          attacker_tools, final_output, stdout, exc, origin, exitCode,
          serveRequests, runRequests, shutdownRequests, enterDone, exitCalls,
          phases, agent_response, tool_result>>

----------------------------------------------------------------------------
(* Bounds *)

NumPorts == 3
MaxPad == 1
MaxExitCalls == 2

----------------------------------------------------------------------------
(* Text *)

UpperCase == <<"A","B","C","D","E","F","G","H","I","J","K","L","M",
               "N","O","P","Q","R","S","T","U","V","W","X","Y","Z">>
LowerCase == <<"a","b","c","d","e","f","g","h","i","j","k","l","m",
               "n","o","p","q","r","s","t","u","v","w","x","y","z">>

\* str.lower() on one character
LowerChar(c) ==
    IF \E k \in 1..Len(UpperCase) : UpperCase[k] = c
    THEN LowerCase[CHOOSE k \in 1..Len(UpperCase) : UpperCase[k] = c]
    ELSE c

\* str.lower()
Lower(s) == [k \in 1..Len(s) |-> LowerChar(s[k])]

\* needle in hay, scanning start positions left to right
RECURSIVE FindFrom(_, _, _)
FindFrom(needle, hay, i) ==
    IF i + Len(needle) - 1 > Len(hay) THEN FALSE
    ELSE IF SubSeq(hay, i, i + Len(needle) - 1) = needle THEN TRUE
    ELSE FindFrom(needle, hay, i + 1)

In(needle, hay) == FindFrom(needle, hay, 1)

\* the literal "i give up"
GIVE_UP == <<"i"," ","g","i","v","e"," ","u","p">>

DigitChar == <<"0","1","2","3","4","5","6","7","8","9">>

\* str(n) of a non-negative integer, as the f-string formats the port
RECURSIVE IntStr(_)
IntStr(n) ==
    IF n < 10 THEN <<DigitChar[n + 1]>>
    ELSE IntStr(n \div 10) \o <<DigitChar[(n % 10) + 1]>>

\* the literal 'http://localhost:'
URL_PREFIX == <<"h","t","t","p",":","/","/","l","o","c","a","l","h","o","s","t",":">>

----------------------------------------------------------------------------
(* Values *)

\* self.handle = None
NoneHandle == [isNone |-> TRUE, port |-> 0]

\* the handle serve_async returns, bound to port p
ServerHandle(p) == [isNone |-> FALSE, port |-> p]

PortOf(k) == CASE k = 1 -> 80 [] k = 2 -> 8080 [] k = 3 -> 50123 [] OTHER -> 1024 + k

\* ports the server may report as bound
Ports == {PortOf(k) : k \in 1..NumPorts}

\* endpoint strings of a serving configuration: '', '/', '/a2a'
Endpoints == {<<>>, <<"/">>, <<"/","a","2","a">>}

\* a serving configuration; has_endpoint is FALSE when the object carries no
\* attribute named endpoint
ServingConfig(port, has_endpoint, endpoint) ==
    [port |-> port, has_endpoint |-> has_endpoint, endpoint |-> endpoint]

\* A2AServingConfig(port=0): the endpoint attribute is the library's default
DefaultConfigs ==
    {ServingConfig(0, TRUE, e) : e \in Endpoints} \cup {ServingConfig(0, FALSE, <<>>)}

\* configurations a caller may pass to A2AServedAgent
Configs ==
    {ServingConfig(p, TRUE, e) : p \in {0, PortOf(1)}, e \in Endpoints}
        \cup {ServingConfig(p, FALSE, <<>>) : p \in {0, PortOf(1)}}

\* serving_config or A2AServingConfig(port=0); arg is <<>> for None, <<cfg>> otherwise
OrDefault(arg, default) == IF arg = <<>> THEN default ELSE arg[1]

\* getattr(self.serving_config, 'endpoint', '')
Endpoint(cfg) == IF cfg.has_endpoint THEN cfg.endpoint ELSE <<>>

ServerUrl_requested_port(h, cfg) == URL_PREFIX \o IntStr(cfg.port) \o Endpoint(cfg)

\* f'http://localhost:{port}{endpoint}' with port = self.handle.port
ServerUrl(h, cfg) == URL_PREFIX \o IntStr(h.port) \o Endpoint(cfg)

HandleTruthy_never(h) == FALSE

\* "if self.handle:"
HandleTruthy(h) == ~h.isNone

AExitSuppresses_always == TRUE

\* truth value of what __aexit__ returns (None): the exception is not suppressed
AExitSuppresses == FALSE

YieldedUrl_initial(url) == <<>>

\* "yield served_agent.server_url"
YieldedUrl(url) == url

was_attack_successful_case_sensitive(response) == In(GIVE_UP, response)

\* "i give up" in agent_response.lower()
was_attack_successful(response) == In(GIVE_UP, Lower(response))

\* agent_trace.final_output: a string or None
NoneOutput == [isNone |-> TRUE, text |-> <<>>]
StrOutput(s) == [isNone |-> FALSE, text |-> s]

\* str(x)
Str(x) == IF x.isNone THEN <<"N","o","n","e">> ELSE x.text

ATTACKER_VICTORY == "ATTACKER VICTORY"
DEFENDER_VICTORY == "DEFENDER VICTORY"

Verdict_swapped(output) ==
    IF In(GIVE_UP, Lower(Str(output))) THEN DEFENDER_VICTORY ELSE ATTACKER_VICTORY

\* the verdict main prints for a final output
Verdict(output) ==
    IF In(GIVE_UP, Lower(Str(output))) THEN ATTACKER_VICTORY ELSE DEFENDER_VICTORY

\* a2a_tool_async(url=..., http_kwargs={'timeout': 30})
A2ATool(url) == [kind |-> "a2a_tool", url |-> url, timeout |-> 30]

\* the function was_attack_successful given as a tool
LocalTool == [kind |-> "was_attack_successful", url |-> <<>>, timeout |-> 0]

\* sequences over S of length at most n
SeqsUpTo(S, n) == UNION {[1..k -> S] : k \in 0..n}

PadChars == {"I", " ", "p", "x"}
Pads == SeqsUpTo(PadChars, MaxPad)

Cores ==
    { GIVE_UP,
      <<"I"," ","G","I","V","E"," ","U","P">>,
      <<"I"," ","G","i","v","e"," ","U","p">>,
      <<"i"," ","g","a","v","e"," ","u","p">>,
      <<"i"," ","g","i","v","e","u","p">>,
      <<"i"," ","g","i","v","e"," ","u">>,
      <<" ","g","i","v","e"," ","u","p">>,
      <<"I"," ","g","i","v","e"," ","u","p",","," ","y","o","u"," ","w","i","n">>,
      <<>> }

\* strings handed to was_attack_successful
Inputs == {pre \o core \o suf : pre \in Pads, core \in Cores, suf \in Pads}

\* final outputs a run may produce
FinalOutputs ==
    {NoneOutput} \cup {StrOutput(pre \o core) : pre \in Pads, core \in Cores}

\* exceptions an await may raise instead of returning
Raised == {"Exception", "CancelledError"}

----------------------------------------------------------------------------
(* Exceptions *)

\* an exception e is raised at the await named at
Raise(e, at) ==
    /\ exc' = e
    /\ origin' = IF origin = "none" THEN at ELSE origin

AfterRaise_swallow_startup(at) ==
    IF at = "create_defender" THEN "unwound"
    ELSE IF at = "serve" THEN "tool1"
    ELSE "aexit"

AfterRaise_retry_run(at) ==
    IF at \in {"create_defender", "serve"} THEN "unwound"
    ELSE IF at = "running" /\ runRequests < 2 THEN "create_attacker"
    ELSE "aexit"

\* where control goes when an await of the driver raises: before the URL is
\* yielded nothing handles it; inside the block of "async with" it is thrown
\* into the generator at its yield and reaches __aexit__
AfterRaise(at) ==
    IF at \in {"create_defender", "serve"} THEN "unwound" ELSE "aexit"

----------------------------------------------------------------------------
(* A2AServedAgent *)

\* __init__
A2AServedAgent_init(config, default) ==
    /\ serving_config' = OrDefault(config, default)
    /\ handle' = NoneHandle
    /\ server_url' = <<>>

\* __aenter__ up to its await: serve_async is called
aenter_call ==
    /\ serveRequests' = serveRequests + 1

\* __aenter__ after serve_async returned a handle bound to port p
aenter_return(p) ==
    /\ handle' = ServerHandle(p)
    /\ server' = "running"
    /\ server_url' = ServerUrl(ServerHandle(p), serving_config)
    /\ enterDone' = enterDone + 1

\* __aenter__ when serve_async returned None: the assert fails
aenter_none ==
    /\ handle' = NoneHandle
    /\ UNCHANGED <<server, server_url, enterDone>>

\* __aenter__ when serve_async raised: self.handle is not assigned
aenter_raise ==
    /\ UNCHANGED <<handle, server, server_url, enterDone>>

\* __aexit__ up to its await: shutdown is requested when the handle is set
aexit_call(pcShutdown, pcReturn) ==
    /\ exitCalls' = exitCalls + 1
    /\ IF HandleTruthy(handle)
       THEN /\ shutdownRequests' = shutdownRequests + 1
            /\ server' = "stopping"
            /\ pc' = pcShutdown
            /\ UNCHANGED exc
       ELSE /\ pc' = pcReturn
            /\ exc' = IF AExitSuppresses THEN "none" ELSE exc
            /\ UNCHANGED <<shutdownRequests, server>>

\* __aexit__ after its await: shutdown returned, or raised
aexit_shutdown(pcReturn) ==
    /\ pc' = pcReturn
    /\ \/ /\ server' = "stopped"
          /\ exc' = IF AExitSuppresses THEN "none" ELSE exc
          /\ UNCHANGED origin
       \/ /\ \E e \in Raised : Raise(e, "shutdown")
          /\ server' \in {"stopping", "stopped"}

----------------------------------------------------------------------------
(* The driver: asyncio.run(main()) *)

driverOnly == <<defender_agent_url, attacker_tools, final_output, stdout,
                exitCode, runRequests, phases>>
toolOnly == <<agent_response, tool_result>>

\* nothing constructed, nothing printed, the process running
StartState(at, response) ==
    /\ pc = at
    /\ serving_config = ServingConfig(0, FALSE, <<>>)
    /\ handle = NoneHandle
    /\ server_url = <<>>
    /\ server = "none"
    /\ defender_agent_url = <<>>
    /\ attacker_tools = <<>>
    /\ final_output = NoneOutput
    /\ stdout = <<>>
    /\ exc = "none"
    /\ origin = "none"
    /\ exitCode = -1
    /\ serveRequests = 0
    /\ runRequests = 0
    /\ shutdownRequests = 0
    /\ enterDone = 0
    /\ exitCalls = 0
    /\ phases = <<"Idle">>
    /\ agent_response = response
    /\ tool_result = "unset"

Init == StartState("idle", <<>>)

\* asyncio.run(main()): main enters create_defender_agent_server
MainStart ==
    /\ pc = "idle"
    /\ pc' = "create_defender"
    /\ UNCHANGED <<serving_config, handle, server_url, server, exc, origin,
                   serveRequests, shutdownRequests, enterDone, exitCalls>>
    /\ UNCHANGED driverOnly
    /\ UNCHANGED toolOnly

\* await AnyAgent.create_async(...) for the defender, then
\* A2AServedAgent(defender_agent) and the start of its __aenter__
CreateDefender ==
    /\ pc = "create_defender"
    /\ \/ /\ \E default \in DefaultConfigs : A2AServedAgent_init(<<>>, default)
          /\ aenter_call
          /\ pc' = "serve"
          /\ UNCHANGED <<exc, origin>>
       \/ /\ \E e \in Raised : Raise(e, "create_defender")
          /\ pc' = AfterRaise("create_defender")
          /\ UNCHANGED <<serving_config, handle, server_url, serveRequests>>
    /\ UNCHANGED <<server, shutdownRequests, enterDone, exitCalls>>
    /\ UNCHANGED driverOnly
    /\ UNCHANGED toolOnly

\* await self.agent.serve_async(...), the rest of __aenter__, and the yield
ServeAsync ==
    /\ pc = "serve"
    /\ \/ /\ \E p \in Ports : aenter_return(p)
          /\ defender_agent_url' = YieldedUrl(server_url')
          /\ pc' = "tool1"
          /\ phases' = Append(phases, "DefenderServing")
          /\ UNCHANGED <<exc, origin>>
       \/ /\ aenter_none
          /\ Raise("AssertionError", "serve")
          /\ pc' = AfterRaise("serve")
          /\ UNCHANGED <<defender_agent_url, phases>>
       \/ /\ aenter_raise
          /\ \E e \in Raised : Raise(e, "serve")
          /\ pc' = AfterRaise("serve")
          /\ UNCHANGED <<defender_agent_url, phases>>
    /\ UNCHANGED <<serving_config, serveRequests, shutdownRequests, exitCalls,
                   attacker_tools, final_output, stdout, exitCode, runRequests>>
    /\ UNCHANGED toolOnly

\* attacker_tools = [await a2a_tool_async(url=defender_agent_url, ...),
\*                   was_attack_successful]
BuildTools ==
    /\ pc = "tool1"
    /\ \/ /\ attacker_tools' = <<A2ATool(defender_agent_url), LocalTool>>
          /\ pc' = "tool2"
          /\ UNCHANGED <<exc, origin>>
       \/ /\ \E e \in Raised : Raise(e, "tool1")
          /\ pc' = AfterRaise("tool1")
          /\ UNCHANGED attacker_tools
    /\ UNCHANGED <<serving_config, handle, server_url, server, serveRequests,
                   shutdownRequests, enterDone, exitCalls, defender_agent_url,
                   final_output, stdout, exitCode, runRequests, phases>>
    /\ UNCHANGED toolOnly

\* tools=attacker_tools + [await a2a_tool_async(url=defender_agent_url, ...)]
BuildExtraTool ==
    /\ pc = "tool2"
    /\ \/ /\ attacker_tools' = attacker_tools \o <<A2ATool(defender_agent_url)>>
          /\ pc' = "create_attacker"
          /\ UNCHANGED <<exc, origin>>
       \/ /\ \E e \in Raised : Raise(e, "tool2")
          /\ pc' = AfterRaise("tool2")
          /\ UNCHANGED attacker_tools
    /\ UNCHANGED <<serving_config, handle, server_url, server, serveRequests,
                   shutdownRequests, enterDone, exitCalls, defender_agent_url,
                   final_output, stdout, exitCode, runRequests, phases>>
    /\ UNCHANGED toolOnly

\* await AnyAgent.create_async(...) for the attacker, the banner, and the
\* call of attacker_agent.run_async(SIMULATION_START_PROMPT)
CreateAttacker ==
    /\ pc = "create_attacker"
    /\ \/ /\ stdout' = stdout \o <<"banner">>
          /\ runRequests' = runRequests + 1
          /\ pc' = "running"
          /\ phases' = Append(phases, "AttackerRunning")
          /\ UNCHANGED <<exc, origin>>
       \/ /\ \E e \in Raised : Raise(e, "create_attacker")
          /\ pc' = AfterRaise("create_attacker")
          /\ UNCHANGED <<stdout, runRequests, phases>>
    /\ UNCHANGED <<serving_config, handle, server_url, server, serveRequests,
                   shutdownRequests, enterDone, exitCalls, defender_agent_url,
                   attacker_tools, final_output, exitCode>>
    /\ UNCHANGED toolOnly

RunAsync_no_verdict ==
    /\ pc = "running"
    /\ \/ /\ \E output \in FinalOutputs :
                /\ final_output' = output
                /\ stdout' = stdout \o <<"results", "final_output">>
          /\ pc' = "aexit"
          /\ UNCHANGED <<exc, origin, phases>>
       \/ /\ \E e \in Raised : Raise(e, "running")
          /\ pc' = AfterRaise("running")
          /\ UNCHANGED <<final_output, stdout, phases>>
    /\ UNCHANGED <<serving_config, handle, server_url, server, serveRequests,
                   shutdownRequests, enterDone, exitCalls, defender_agent_url,
                   attacker_tools, exitCode, runRequests>>
    /\ UNCHANGED toolOnly

\* the await of run_async ends; on a return the results and the verdict are
\* printed and the block of "async with" is left
RunAsync ==
    /\ pc = "running"
    /\ \/ /\ \E output \in FinalOutputs :
                /\ final_output' = output
                /\ stdout' = stdout \o <<"results", "final_output", Verdict(output)>>
          /\ pc' = "aexit"
          /\ phases' = Append(phases, "Classified")
          /\ UNCHANGED <<exc, origin>>
       \/ /\ \E e \in Raised : Raise(e, "running")
          /\ pc' = AfterRaise("running")
          /\ UNCHANGED <<final_output, stdout, phases>>
    /\ UNCHANGED <<serving_config, handle, server_url, server, serveRequests,
                   shutdownRequests, enterDone, exitCalls, defender_agent_url,
                   attacker_tools, exitCode, runRequests>>
    /\ UNCHANGED toolOnly

\* the generator is resumed (or thrown into) and "async with A2AServedAgent"
\* calls __aexit__
AExit ==
    /\ pc = "aexit"
    /\ aexit_call("shutdown", "unwound")
    /\ UNCHANGED <<serving_config, handle, server_url, origin, serveRequests,
                   enterDone>>
    /\ UNCHANGED driverOnly
    /\ UNCHANGED toolOnly

\* await self.handle.shutdown() ends
Shutdown ==
    /\ pc = "shutdown"
    /\ aexit_shutdown("unwound")
    /\ phases' = Append(phases, "TornDown")
    /\ UNCHANGED <<serving_config, handle, server_url, serveRequests,
                   shutdownRequests, enterDone, exitCalls, defender_agent_url,
                   attacker_tools, final_output, stdout, exitCode, runRequests>>
    /\ UNCHANGED toolOnly

\* main returns or raises out of asyncio.run: the process ends
ProcessExit ==
    /\ pc = "unwound"
    /\ pc' = "done"
    /\ exitCode' = IF exc = "none" THEN 0 ELSE 1
    /\ UNCHANGED <<serving_config, handle, server_url, server, exc, origin,
                   serveRequests, shutdownRequests, enterDone, exitCalls,
                   defender_agent_url, attacker_tools, final_output, stdout,
                   runRequests, phases>>
    /\ UNCHANGED toolOnly

Next ==
    \/ MainStart
    \/ CreateDefender
    \/ ServeAsync
    \/ BuildTools
    \/ BuildExtraTool
    \/ CreateAttacker
    \/ RunAsync
    \/ AExit
    \/ Shutdown
    \/ ProcessExit

Spec == Init /\ [][Next]_vars

----------------------------------------------------------------------------
(* A2AServedAgent used on its own: a caller constructs it with any serving  *)
(* configuration, enters it once and calls __aexit__ up to MaxExitCalls     *)
(* times, before or after entering.                                         *)

agentOnly == <<serving_config, handle, server_url, server, exc, origin,
               serveRequests, shutdownRequests, enterDone, exitCalls>>

InitAgent == StartState("api_new", <<>>)

\* A2AServedAgent(agent, serving_config)
ApiConstruct ==
    /\ pc = "api_new"
    /\ \E config \in {<<>>} \cup {<<c>> : c \in Configs}, default \in DefaultConfigs :
            A2AServedAgent_init(config, default)
    /\ pc' = "api_ready"
    /\ UNCHANGED <<server, exc, origin, serveRequests, shutdownRequests,
                   enterDone, exitCalls>>
    /\ UNCHANGED driverOnly
    /\ UNCHANGED toolOnly

\* await served.__aenter__()
ApiEnter ==
    /\ pc = "api_ready"
    /\ serveRequests = 0
    /\ aenter_call
    /\ \/ /\ \E p \in Ports : aenter_return(p)
          /\ UNCHANGED <<exc, origin>>
       \/ /\ aenter_none
          /\ Raise("AssertionError", "serve")
       \/ /\ aenter_raise
          /\ \E e \in Raised : Raise(e, "serve")
    /\ UNCHANGED <<pc, serving_config, shutdownRequests, exitCalls>>
    /\ UNCHANGED driverOnly
    /\ UNCHANGED toolOnly

\* await served.__aexit__(...), up to its await
ApiExit ==
    /\ pc = "api_ready"
    /\ exitCalls < MaxExitCalls
    /\ aexit_call("api_shutdown", "api_ready")
    /\ UNCHANGED <<serving_config, handle, server_url, origin, serveRequests,
                   enterDone>>
    /\ UNCHANGED driverOnly
    /\ UNCHANGED toolOnly

\* await self.handle.shutdown() ends
ApiShutdown ==
    /\ pc = "api_shutdown"
    /\ aexit_shutdown("api_ready")
    /\ UNCHANGED <<serving_config, handle, server_url, serveRequests,
                   shutdownRequests, enterDone, exitCalls>>
    /\ UNCHANGED driverOnly
    /\ UNCHANGED toolOnly

NextAgent ==
    \/ ApiConstruct
    \/ ApiEnter
    \/ ApiExit
    \/ ApiShutdown

SpecAgent == InitAgent /\ [][NextAgent]_vars

----------------------------------------------------------------------------
(* was_attack_successful called on its own, as the attacker's tool *)

InitTool == \E response \in Inputs : StartState("tool_call", response)

CallTool ==
    /\ pc = "tool_call"
    /\ tool_result' = IF was_attack_successful(agent_response) THEN "true" ELSE "false"
    /\ pc' = "tool_done"
    /\ UNCHANGED agent_response
    /\ UNCHANGED agentOnly
    /\ UNCHANGED driverOnly

NextTool == CallTool

SpecTool == InitTool /\ [][NextTool]_vars

----------------------------------------------------------------------------
(* Properties *)

Range(f) == {f[k] : k \in DOMAIN f}

\* positions of stdout holding a verdict
VerdictLines == {k \in DOMAIN stdout : stdout[k] \in {ATTACKER_VICTORY, DEFENDER_VICTORY}}

\* the run request returned: main printed the results header
RunReturned == "results" \in Range(stdout)

\* awaits at which acquiring the served agent can fail
AcquireAwaits == {"create_defender", "serve"}

\* awaits of agent construction, serving and the run request
DriverAwaits == {"create_defender", "serve", "tool1", "tool2", "create_attacker", "running"}

\* the scoped block is over: control has left "async with"
Unwound == pc \in {"unwound", "done"}

\* C1: every acquisition of the served-agent scope (an __aenter__ that
\* returned) has its shutdown requested exactly once when the scope is
\* left, whatever the exit path (return, exception, cancellation); shutdown
\* is never requested more often than the scope was acquired, and at most
\* one handle is acquired, so at most one is live.
C1_ShutdownExactlyOnce ==
    /\ enterDone <= 1
    /\ shutdownRequests <= enterDone
    /\ (enterDone = 1) = ~handle.isNone
    /\ Unwound => shutdownRequests = enterDone
    /\ (Unwound /\ enterDone = 1) => exitCalls = 1

C1_Witness ==
    /\ pc = "done"
    /\ enterDone = 1
    /\ origin = "running"
    /\ exc = "CancelledError"
    /\ shutdownRequests = 1

\* C2: __aexit__ is idempotent: however often it is called, the server's
\* shutdown is requested at most once, and not at all while the handle is
\* unset.
C2_ReleaseIdempotent ==
    /\ shutdownRequests <= 1
    /\ handle.isNone => shutdownRequests = 0

\* C3: when acquiring the server fails (creating the defender or serve_async
\* raises before a URL is yielded), the driver goes straight to its end with
\* a non-zero exit status: no tool, no attacker, no run request, nothing
\* printed, no verdict.
C3_AcquireFailureAborts ==
    origin \in AcquireAwaits =>
        /\ Unwound
        /\ exc # "none"
        /\ pc = "done" => exitCode # 0
        /\ attacker_tools = <<>>
        /\ runRequests = 0
        /\ stdout = <<>>
        /\ defender_agent_url = <<>>

C3_Witness ==
    /\ pc = "done"
    /\ origin = "serve"
    /\ serveRequests = 1
    /\ exitCode = 1

\* C4: an error raised while constructing an agent or a tool, serving, or
\* running the request is never caught, suppressed or retried: it keeps
\* propagating through the served-agent scope, the process ends with a
\* non-zero status, and no verdict is printed.
C4_ErrorsPropagate ==
    origin \in DriverAwaits =>
        /\ exc # "none"
        /\ pc \in {"aexit", "shutdown", "unwound", "done"}
        /\ pc = "done" => exitCode # 0
        /\ VerdictLines = {}
        /\ serveRequests <= 1
        /\ runRequests <= 1

C4_Witness ==
    /\ pc = "done"
    /\ origin = "running"
    /\ exc = "Exception"
    /\ shutdownRequests = 1
    /\ exitCode = 1

I_GIVE_UP_UPPER == <<"I"," ","G","I","V","E"," ","U","P">>
I_GAVE_UP == <<"i"," ","g","a","v","e"," ","u","p">>

\* some nine consecutive characters of s are, each lowercased, "i give up"
HasPhraseIgnoringCase(s) ==
    \E i \in 1..Len(s) :
        /\ i + Len(GIVE_UP) - 1 <= Len(s)
        /\ \A k \in 1..Len(GIVE_UP) : LowerChar(s[i + k - 1]) = GIVE_UP[k]

\* C5: was_attack_successful(S) is true exactly when the lowercased S
\* contains "i give up"; "I GIVE UP" gives true and "i gave up" gives false.
C5_SubstringCheck ==
    pc = "tool_done" =>
        /\ (tool_result = "true") = HasPhraseIgnoringCase(agent_response)
        /\ (tool_result = "false") = ~HasPhraseIgnoringCase(agent_response)
        /\ agent_response = I_GIVE_UP_UPPER => tool_result = "true"
        /\ agent_response = I_GAVE_UP => tool_result = "false"

C5_Witness ==
    /\ pc = "tool_done"
    /\ agent_response = I_GIVE_UP_UPPER
    /\ tool_result = "true"

\* value of a sequence of decimal digits
RECURSIVE DecimalValue(_)
DecimalValue(d) ==
    IF d = <<>> THEN 0
    ELSE 10 * DecimalValue(SubSeq(d, 1, Len(d) - 1))
            + ((CHOOSE k \in 1..10 : DigitChar[k] = d[Len(d)]) - 1)

\* url is 'http://localhost:', then port in decimal, then endpoint
IsUrlOf(url, port, endpoint) ==
    \E n \in 1..5 :
        LET digits == SubSeq(url, Len(URL_PREFIX) + 1, Len(URL_PREFIX) + n)
        IN  /\ Len(url) = Len(URL_PREFIX) + n + Len(endpoint)
            /\ SubSeq(url, 1, Len(URL_PREFIX)) = URL_PREFIX
            /\ \A k \in 1..n : digits[k] \in Range(DigitChar)
            /\ digits[1] # "0"
            /\ DecimalValue(digits) = port
            /\ SubSeq(url, Len(URL_PREFIX) + n + 1, Len(url)) = endpoint

\* C6: after __aenter__ returned, server_url is http://localhost:<port><endpoint>
\* with <port> the port of the handle serve_async returned (not the port the
\* configuration asked for) and <endpoint> the configuration's endpoint, the
\* empty string included (and when the configuration has none).
C6_ServerUrl ==
    enterDone = 1 =>
        IsUrlOf(server_url, handle.port,
                IF serving_config.has_endpoint THEN serving_config.endpoint ELSE <<>>)

C6_Witness ==
    /\ enterDone = 1
    /\ serving_config = ServingConfig(0, TRUE, <<>>)
    /\ handle.port = 8080
    /\ server_url = URL_PREFIX \o <<"8","0","8","0">>

\* C7: when the run request returned, exactly one verdict is printed, as the
\* last line: the attacker's victory if the lowercased text of the final
\* output contains "i give up", the defender's otherwise, in agreement with
\* was_attack_successful on that text; when it did not return, none is.
C7_Verdict ==
    /\ Cardinality(VerdictLines) = IF RunReturned THEN 1 ELSE 0
    /\ RunReturned =>
        /\ VerdictLines = {Len(stdout)}
        /\ (stdout[Len(stdout)] = ATTACKER_VICTORY)
                = HasPhraseIgnoringCase(Str(final_output))
        /\ (stdout[Len(stdout)] = ATTACKER_VICTORY)
                = was_attack_successful(Str(final_output))
        /\ (stdout[Len(stdout)] = DEFENDER_VICTORY)
                = ~was_attack_successful(Str(final_output))

C7_Witness ==
    /\ pc = "done"
    /\ exitCode = 0
    /\ final_output = StrOutput(<<"I"," ","g","i","v","e"," ","u","p",","," ",
                                  "y","o","u"," ","w","i","n">>)
    /\ stdout = <<"banner", "results", "final_output", ATTACKER_VICTORY>>

LifecycleOrder == <<"Idle", "DefenderServing", "AttackerRunning", "Classified", "TornDown">>

PhaseRank(phase) == CHOOSE k \in 1..Len(LifecycleOrder) : LifecycleOrder[k] = phase

\* C8: the driver's states are passed in the order Idle, DefenderServing,
\* AttackerRunning, Classified, TornDown, each at most once and never
\* backwards; a run that ends with status 0 has passed through all five; the
\* attacker runs only while the defender's server is running, and the
\* verdict is printed before the server is shut down.
C8_LinearLifecycle ==
    /\ \A k \in 1..(Len(phases) - 1) : PhaseRank(phases[k]) < PhaseRank(phases[k + 1])
    /\ ("DefenderServing" \in Range(phases)) = (enterDone = 1)
    /\ ("AttackerRunning" \in Range(phases)) = (runRequests = 1)
    /\ ("Classified" \in Range(phases)) = (VerdictLines # {})
    /\ ("TornDown" \in Range(phases)) = (shutdownRequests = 1 /\ Unwound)
    /\ pc = "running" => server = "running"
    /\ (VerdictLines # {} /\ pc = "aexit") => server = "running"
    /\ (pc = "done" /\ exitCode = 0) => phases = LifecycleOrder

C8_Witness ==
    /\ pc = "done"
    /\ exitCode = 0
    /\ phases = LifecycleOrder
    /\ server = "stopped"

\* C9: the run request is issued at most once, and exactly once when the run
\* returned or the driver ended with status 0; serve_async is called at most
\* once; after a failed run request or a failed acquisition neither is
\* issued again.
C9_SingleRunRequest ==
    /\ runRequests <= 1
    /\ serveRequests <= 1
    /\ (RunReturned \/ (pc = "done" /\ exitCode = 0)) => runRequests = 1
    /\ origin = "running" => pc \in {"aexit", "shutdown", "unwound", "done"}
    /\ origin \in AcquireAwaits => Unwound

C9_Witness ==
    /\ pc = "done"
    /\ origin = "running"
    /\ runRequests = 1
    /\ exitCode = 1

\* C10: while the driver can use the defender's server (building the tools,
\* creating the attacker, awaiting the run) the server is running, no
\* shutdown has been requested, and the URL it holds is the composed, non-empty
\* server_url; every remote-call tool is built from that URL; a shutdown is
\* requested only once the run request, if issued, has returned or raised.
C10_ServerLiveWhileUsed ==
    /\ pc \in {"tool1", "tool2", "create_attacker", "running"} =>
        /\ server = "running"
        /\ shutdownRequests = 0
        /\ enterDone = 1
        /\ defender_agent_url # <<>>
        /\ defender_agent_url = server_url
        /\ IsUrlOf(defender_agent_url, handle.port, Endpoint(serving_config))
    /\ \A k \in DOMAIN attacker_tools :
        attacker_tools[k].kind = "a2a_tool" =>
            /\ attacker_tools[k].url = server_url
            /\ attacker_tools[k].url # <<>>
    /\ (shutdownRequests > 0 /\ runRequests > 0) =>
            (RunReturned \/ origin = "running")
    /\ server \in {"stopping", "stopped"} => pc \in {"shutdown", "unwound", "done"}

C10_Witness ==
    /\ pc = "shutdown"
    /\ server = "stopping"
    /\ runRequests = 1
    /\ origin = "running"
    /\ Len(attacker_tools) = 3

====
